---- MODULE Spec2Model ----
(***************************************************************************)
(* Model of credential_rotation.qwen.manager: the AccountManager that      *)
(* rotates OAuth credential files under an flock, with its on-disk state   *)
(* (slot files, active credential file, state.yaml, rotation.log).         *)
(***************************************************************************)
EXTENDS Integers, Sequences, FiniteSets, TLC

(* ------------------------------ bounds --------------------------------- *)
\* account indices that may have a slot file: 1..MaxIdx
MaxIdx == 3
\* switch_to / switch_next calls started in one behaviour
MaxCalls == 2
\* in-place rewrites of one credential set by the wrapped tool
MaxVer == 1
\* out-of-band additions / removals of slot files
MaxEnv == 1

(* ------------------------- program constants --------------------------- *)
DEFAULT_TOTAL_ACCOUNTS == 5

Procs == {"p1", "p2"}
Idx == 1..MaxIdx

(* ------------------------------ files ---------------------------------- *)
\* A credential file: absent, a regular file holding the credentials that
\* were issued for account `acct` (rewritten `ver` times by the tool), a
\* legacy symlink pointing at the slot of `acct`, or a regular file that
\* holds only the beginning of a copy still in progress; ver -1 marks a
\* regular file that a failed copy left truncated.
NoFile == [kind |-> "none", acct |-> 0, ver |-> 0]
File(a, v) == [kind |-> "file", acct |-> a, ver |-> v]
Link(a) == [kind |-> "link", acct |-> a, ver |-> 0]
Partial(a) == [kind |-> "partial", acct |-> a, ver |-> 0]
\* a regular file left holding only part of account a's credentials by a
\* copy that raised while it was writing
Torn(a) == [kind |-> "file", acct |-> a, ver |-> -1]

\* A file name of the accounts directory: its stem split at "_" into the
\* leading parts and the last part (a string of characters), and its
\* extension.
Digits == <<"0", "1", "2", "3", "4", "5", "6", "7", "8", "9">>

\* f"oauth_creds_{index}.json" for a one-digit index
SlotName(i) == [head |-> <<"oauth", "creds">>, last |-> <<Digits[i + 1]>>, ext |-> "json"]

\* other names a directory may hold: oauth_creds_01.json,
\* oauth_creds_x_2.json, oauth_creds_x.json, oauth_creds_.json,
\* oauth_creds_3.txt, oauth_1.json
OtherNames ==
    {[head |-> <<"oauth", "creds">>, last |-> <<"0", "1">>, ext |-> "json"],
     [head |-> <<"oauth", "creds", "x">>, last |-> <<"2">>, ext |-> "json"],
     [head |-> <<"oauth", "creds">>, last |-> <<"x">>, ext |-> "json"],
     [head |-> <<"oauth", "creds">>, last |-> <<>>, ext |-> "json"],
     [head |-> <<"oauth", "creds">>, last |-> <<"3">>, ext |-> "txt"],
     [head |-> <<"oauth">>, last |-> <<"1">>, ext |-> "json"]}

VARIABLES
    dir,        \* accounts/: whether it exists, and the files in it that
                \* are not named oauth_creds_<i>.json with i \in Idx
    slots,      \* accounts/oauth_creds_<i>.json, i \in Idx
    creds,      \* oauth_creds.json, the active credential file
    credsTmp,   \* oauth_creds.json.tmp
    stateFile,  \* state.yaml: <<>> when absent, else <<document>>
    stateTmp,   \* state.tmp:  <<>> when absent, else <<document>>
    log,        \* rotation.log, a sequence of entries
    lock,       \* holder of the flock on the lock file, or "free"
    pc,         \* position of each process inside its call
    loc,        \* locals of each process's call
    hist,       \* history of each call: what it read, wrote and changed
    calls,      \* calls started so far
    envOps,     \* out-of-band slot changes so far
    succ        \* switch calls that have returned successfully

vars == <<dir, slots, creds, credsTmp, stateFile, stateTmp, log, lock, pc, loc,
          hist, calls, envOps, succ>>

durable == <<dir, slots, creds, credsTmp, stateFile, stateTmp, log>>

(* ------------------------- RotationState ------------------------------- *)
\* AccountStats()
NewAccountStats == [switches_count |-> 0, last_used |-> "none"]

\* RotationState(total_accounts=n)
NewRotationState(n) ==
    [current_index |-> 1, total_accounts |-> n, last_switch |-> "none",
     switches_total |-> 0, accounts |-> <<>>]

\* AccountStats.to_dict
StatsToDict(s) == [switches_count |-> s.switches_count, last_used |-> s.last_used]

\* AccountStats.from_dict (data is a mapping here; None cannot be produced
\* by to_dict)
StatsFromDict(d) ==
    [switches_count |-> IF "switches_count" \in DOMAIN d THEN d.switches_count ELSE 0,
     last_used |-> IF "last_used" \in DOMAIN d THEN d.last_used ELSE "none"]

\* RotationState.to_dict
ToDict(s) ==
    [current_index |-> s.current_index, total_accounts |-> s.total_accounts,
     last_switch |-> s.last_switch, switches_total |-> s.switches_total,
     accounts |-> [k \in DOMAIN s.accounts |-> StatsToDict(s.accounts[k])]]

\* RotationState.from_dict: every key is read with .get and a default
FromDict(d) ==
    [current_index |-> IF "current_index" \in DOMAIN d THEN d.current_index ELSE 1,
     total_accounts |-> IF "total_accounts" \in DOMAIN d THEN d.total_accounts
                        ELSE DEFAULT_TOTAL_ACCOUNTS,
     last_switch |-> IF "last_switch" \in DOMAIN d THEN d.last_switch ELSE "none",
     switches_total |-> IF "switches_total" \in DOMAIN d THEN d.switches_total ELSE 0,
     accounts |-> IF "accounts" \in DOMAIN d
                  THEN [k \in DOMAIN d.accounts |-> StatsFromDict(d.accounts[k])]
                  ELSE <<>>]

\* yaml.dump writes the keys of the mapping in sorted order
KeyOrder == <<"accounts", "current_index", "last_switch", "switches_total",
              "total_accounts">>

\* how many keys a dump that is still in progress may have put in the file
Cuts == {0, 2}

\* the document in a file that holds the first k keys of the dump of d
Prefix(d, k) == [key \in {KeyOrder[i] : i \in 1..k} |-> d[key]]

\* the document is a whole dump of a RotationState
Whole(d) == DOMAIN d = {KeyOrder[i] : i \in 1..Len(KeyOrder)}

\* A document is what yaml.safe_load makes of a file: a mapping (a record
\* of the keys it has; the empty file loads as no keys), or a record whose
\* yaml field tells what else it is: "unparsable" (YAMLError), "sequence"
\* or "scalar" (parsable, not a mapping), "accounts_null" (a mapping whose
\* accounts value is null).
Shaped(d) == "yaml" \in DOMAIN d

\* get_state raises: data.get on a list or a scalar, or .items() on None,
\* is an AttributeError, which the except clause does not catch
GetStateRaises(f) ==
    /\ f # <<>>
    /\ Shaped(f[1])
    /\ f[1].yaml \in {"sequence", "scalar", "accounts_null"}

\* AccountManager.get_state on the file contents f, when it returns (the
\* manager is built with the default total_accounts): the defaults for an
\* absent or unparsable file
GetState(f) ==
    IF f = <<>> \/ Shaped(f[1]) THEN NewRotationState(DEFAULT_TOTAL_ACCOUNTS)
    ELSE FromDict(f[1])

(* --------------------------- discovery --------------------------------- *)
\* the indices whose slot file exists
Existing(sl) == {i \in Idx : sl[i].kind # "none"}

RECURSIVE SortedSeq(_)
\* the elements of a set of integers in ascending order
SortedSeq(S) ==
    IF S = {} THEN <<>>
    ELSE LET m == CHOOSE x \in S : \A y \in S : x <= y
         IN <<m>> \o SortedSeq(S \ {m})

\* the names of the files in the accounts directory
Listing(d, sl) == {SlotName(i) : i \in Existing(sl)} \cup d.others

\* accounts_dir.glob("oauth_creds_*.json"): the stem begins with
\* "oauth_creds_", so it has at least three parts
Globbed(n) ==
    /\ n.ext = "json"
    /\ Len(n.head) >= 2
    /\ n.head[1] = "oauth" /\ n.head[2] = "creds"

\* the value of a decimal digit, -1 for another character
DigitValue(c) ==
    IF \E k \in 1..Len(Digits) : Digits[k] = c
    THEN (CHOOSE k \in 1..Len(Digits) : Digits[k] = c) - 1
    ELSE -1

RECURSIVE ParseInt(_)
\* int(parts[-1]): the number a string of digits denotes, -1 for ValueError
\* (an empty string, or a character that is not a digit)
ParseInt(cs) ==
    IF cs = <<>> THEN -1
    ELSE LET d == DigitValue(cs[Len(cs)])
         IN IF d < 0 THEN -1
            ELSE IF Len(cs) = 1 THEN d
            ELSE LET r == ParseInt(SubSeq(cs, 1, Len(cs) - 1))
                 IN IF r < 0 THEN -1 ELSE 10 * r + d

RECURSIVE Repeat(_, _)
\* the sequence of k copies of x
Repeat(x, k) == IF k = 0 THEN <<>> ELSE <<x>> \o Repeat(x, k - 1)

RECURSIVE SortedIds(_, _)
\* sorted(ids): the values of V in ascending order, each as many times as
\* there are names in N that denote it
SortedIds(N, V) ==
    IF V = {} THEN <<>>
    ELSE LET m == CHOOSE x \in V : \A y \in V : x <= y
         IN Repeat(m, Cardinality({n \in N : ParseInt(n.last) = m}))
            \o SortedIds(N, V \ {m})

\* AccountManager._discover_account_ids over the accounts directory d with
\* slot files sl
DiscoverAccountIds(d, sl) ==
    IF ~d.exists THEN <<>>
    ELSE LET N == {n \in Listing(d, sl) : Globbed(n) /\ ParseInt(n.last) >= 0}
         IN SortedIds(N, {ParseInt(n.last) : n \in N})

\* list.index: position of the first occurrence, 0 when absent (ValueError)
IndexOf(seq, x) ==
    IF \E k \in 1..Len(seq) : seq[k] = x
    THEN CHOOSE k \in 1..Len(seq) : seq[k] = x /\ \A j \in 1..(k - 1) : seq[j] # x
    ELSE 0

\* a choice that steps two positions ahead instead of one
NextTargetSkip(ids, current) ==
    LET pos == IndexOf(ids, current)
    IN IF pos = 0 THEN <<ids[1], TRUE>>
       ELSE LET np == ((pos + 1) % Len(ids)) + 1
            IN <<ids[np], np = 1>>

\* a choice that, for an unknown current_index, takes the largest index and
\* does not report a wrap
NextTargetLast(ids, current) ==
    LET pos == IndexOf(ids, current)
    IN IF pos = 0 THEN <<ids[Len(ids)], FALSE>>
       ELSE LET np == (pos % Len(ids)) + 1
            IN <<ids[np], np = 1>>

\* switch_next's choice of the target: <<next_index, wrapped>>; positions
\* are 1-based here, so next_pos == 0 in the code is position 1
NextTarget(ids, current) ==
    LET pos == IndexOf(ids, current)
    IN IF pos = 0 THEN <<ids[1], TRUE>>
       ELSE LET np == (pos % Len(ids)) + 1
            IN <<ids[np], np = 1>>

\* bookkeeping that counts the switch in switches_total only
SwitchedNoStats(s, index) ==
    [s EXCEPT !.current_index = index,
              !.last_switch = "ts",
              !.switches_total = s.switches_total + 1]

\* _update_account_stats followed by the fields switch_to sets
Switched(s, index) ==
    LET old == IF index \in DOMAIN s.accounts THEN s.accounts[index]
               ELSE NewAccountStats
        new == [switches_count |-> old.switches_count + 1, last_used |-> "ts"]
    IN [s EXCEPT !.current_index = index,
                 !.last_switch = "ts",
                 !.switches_total = s.switches_total + 1,
                 !.accounts = [k \in (DOMAIN s.accounts) \cup {index} |->
                                  IF k = index THEN new ELSE s.accounts[k]]]

\* Path.exists() of the active credential file: follows a symlink
CredsExists == creds.kind = "file"
               \/ (creds.kind = "link" /\ slots[creds.acct].kind # "none")

\* _with_lock turns every IOError/OSError raised inside the operation into
\* LockError; other exceptions pass through
Surfaced(exc) == IF exc = "OSError" THEN "LockError" ELSE exc

(* ----------------------------- locals ---------------------------------- *)
IdleLoc ==
    [op |-> "none", index |-> 0, reason |-> "none",
     state |-> NewRotationState(DEFAULT_TOTAL_ACCOUNTS),
     current_index |-> 0, available_ids |-> <<>>, next_index |-> 0,
     wrapped |-> FALSE, source |-> NoFile, result |-> "none", flag |-> FALSE,
     first |-> NewRotationState(DEFAULT_TOTAL_ACCOUNTS), listed |-> <<>>,
     out |-> <<>>]

\* waited: the call was made while another process held the lock;
\* touched: the stores whose contents the call changed; tgtBefore: the
\* target slot when the locked section began; raced: a slot file was added
\* or removed out-of-band while the call was inside its locked section;
\* syncIn, syncOut: the active file the sync-back had to copy and the
\* outgoing slot after it; syncErr: that copy raised; src: the target slot when it was copied; put: what the
\* activation installed
IdleHist ==
    [waited |-> FALSE, touched |-> {}, tgtBefore |-> "unread", raced |-> FALSE,
     syncIn |-> NoFile, syncOut |-> NoFile, syncErr |-> FALSE,
     src |-> NoFile, put |-> NoFile]

\* the stores whose contents the step being taken changes
Delta ==
    (IF dir' # dir THEN {"dir"} ELSE {}) \cup
    (IF slots' # slots THEN {"slots"} ELSE {}) \cup
    (IF creds' # creds THEN {"creds"} ELSE {}) \cup
    (IF credsTmp' # credsTmp THEN {"credsTmp"} ELSE {}) \cup
    (IF stateFile' # stateFile THEN {"state"} ELSE {}) \cup
    (IF stateTmp' # stateTmp THEN {"stateTmp"} ELSE {}) \cup
    (IF log' # log THEN {"log"} ELSE {})

Init ==
    /\ dir = [exists |-> TRUE, others |-> {}]
    /\ slots \in [Idx -> {NoFile} \cup {File(i, 0) : i \in Idx}]
    /\ \A i \in Idx : slots[i] \in {NoFile, File(i, 0)}
    /\ creds \in {NoFile} \cup {Link(i) : i \in Idx}
    /\ credsTmp = NoFile
    /\ stateFile = <<>>
    /\ stateTmp = <<>>
    /\ log = <<>>
    /\ lock = "free"
    /\ pc = [p \in Procs |-> "idle"]
    /\ loc = [p \in Procs |-> IdleLoc]
    /\ hist = [p \in Procs |-> IdleHist]
    /\ calls = 0
    /\ envOps = 0
    /\ succ = 0

(* ------------------------------ calls ---------------------------------- *)
\* the step of process p leaves the other processes' locals alone and
\* records what it changed
Step(p, to, newloc, newhist) ==
    /\ pc' = [pc EXCEPT ![p] = to]
    /\ loc' = [loc EXCEPT ![p] = newloc]
    /\ hist' = [hist EXCEPT ![p] = [newhist EXCEPT !.touched = @ \cup Delta]]

\* a caller invokes switch_to(index), reason defaulting to MANUAL
CallSwitchTo(p, x) ==
    /\ pc[p] = "idle"
    /\ calls < MaxCalls
    /\ calls' = calls + 1
    /\ UNCHANGED <<durable, lock, envOps, succ>>
    /\ Step(p, "lock", [IdleLoc EXCEPT !.op = "switch_to", !.index = x, !.reason = "manual"],
            [IdleHist EXCEPT !.waited = (lock # "free")])

\* a caller invokes switch_next(), reason defaulting to AUTO_QUOTA
CallSwitchNext(p) ==
    /\ pc[p] = "idle"
    /\ calls < MaxCalls
    /\ calls' = calls + 1
    /\ UNCHANGED <<durable, lock, envOps, succ>>
    /\ Step(p, "lock", [IdleLoc EXCEPT !.op = "switch_next", !.reason = "auto_quota"],
            [IdleHist EXCEPT !.waited = (lock # "free")])

(* ---------------------------- _with_lock ------------------------------- *)
\* a lock that is granted whoever holds it
LockGrantedAlways(p) == TRUE

\* whether flock(LOCK_EX) may return for p
LockGranted(p) == lock = "free"

\* open(lock_file) and flock(LOCK_EX) succeed: p holds the lock
Acquire(p) ==
    /\ pc[p] = "lock"
    /\ LockGranted(p)
    /\ lock' = p
    /\ UNCHANGED <<durable, calls, envOps, succ>>
    /\ Step(p, "read", loc[p], hist[p])

\* open(lock_file) or flock raises: LockError, the operation is not run
AcquireFail(p) ==
    /\ pc[p] = "lock"
    /\ UNCHANGED <<durable, lock, calls, envOps, succ>>
    /\ Step(p, "unlock", [loc[p] EXCEPT !.result = Surfaced("OSError")], hist[p])

\* an exception leaves func(): the finally block is next
Raise(p, exc) == [loc[p] EXCEPT !.result = Surfaced(exc)]

\* a release that is skipped when the operation raised
UnlockOnReturn(p) ==
    /\ pc[p] = "unlock"
    /\ lock' = IF lock = p /\ loc[p].result = "ok" THEN "free" ELSE lock
    /\ UNCHANGED <<durable, calls, envOps, succ>>
    /\ Step(p, "idle", IdleLoc, IdleHist)

\* a release that is skipped when the operation raised AccountNotFoundError
UnlockUnlessNotFound(p) ==
    /\ pc[p] = "unlock"
    /\ lock' = IF lock = p /\ loc[p].result # "AccountNotFoundError" THEN "free" ELSE lock
    /\ UNCHANGED <<durable, calls, envOps, succ>>
    /\ Step(p, "idle", IdleLoc, IdleHist)

\* finally: flock(LOCK_UN) and close (nothing to release when the lock was
\* not acquired); the call then returns or raises loc[p].result
Unlock(p) ==
    /\ pc[p] = "unlock"
    /\ lock' = IF lock = p THEN "free" ELSE lock
    /\ UNCHANGED <<durable, calls, envOps, succ>>
    /\ Step(p, "idle", IdleLoc, IdleHist)

(* ------------------------- switch_to._do_switch ------------------------ *)
\* state = self.get_state(); current_index = state.current_index
SwitchToRead(p) ==
    /\ pc[p] = "read"
    /\ loc[p].op = "switch_to"
    /\ UNCHANGED <<durable, lock, calls, envOps, succ>>
    /\ IF GetStateRaises(stateFile)
       THEN Step(p, "unlock", Raise(p, "AttributeError"), hist[p])
       ELSE LET s == GetState(stateFile)
            IN Step(p, "sync",
                    [loc[p] EXCEPT !.state = s, !.current_index = s.current_index,
                                   !.next_index = loc[p].index],
                    [hist[p] EXCEPT !.tgtBefore = slots[loc[p].index].kind])

(* ------------------------ switch_next._do_switch ----------------------- *)
\* a switch_next that, finding no slot, goes on to swap to current_index
SwitchNextReadOn(p) ==
    /\ pc[p] = "read"
    /\ loc[p].op = "switch_next"
    /\ UNCHANGED <<durable, lock, calls, envOps, succ>>
    /\ LET s == GetState(stateFile)
           ids == DiscoverAccountIds(dir, slots)
           t == IF ids = <<>> THEN <<s.current_index, TRUE>>
                ELSE NextTarget(ids, s.current_index)
       IN Step(p, "sync",
               [loc[p] EXCEPT !.state = s, !.current_index = s.current_index,
                              !.available_ids = ids,
                              !.next_index = t[1], !.wrapped = t[2]],
               [hist[p] EXCEPT !.tgtBefore = slots[t[1]].kind])

\* get_state, _discover_account_ids, and the choice of next_index
SwitchNextRead(p) ==
    /\ pc[p] = "read"
    /\ loc[p].op = "switch_next"
    /\ UNCHANGED <<durable, lock, calls, envOps, succ>>
    /\ \E s \in {GetState(stateFile)}, ids \in {DiscoverAccountIds(dir, slots)} :
          LET l1 == [loc[p] EXCEPT !.state = s, !.current_index = s.current_index,
                                   !.available_ids = ids]
              h1 == hist[p]
          IN IF GetStateRaises(stateFile)
             THEN Step(p, "unlock", Raise(p, "AttributeError"), h1)
             ELSE IF ids = <<>>
             THEN Step(p, "unlock", [l1 EXCEPT !.result = Surfaced("AccountNotFoundError")], h1)
             ELSE \E t \in {NextTarget(ids, s.current_index)} :
                     Step(p, "sync", [l1 EXCEPT !.next_index = t[1], !.wrapped = t[2]],
                          [h1 EXCEPT !.tgtBefore = slots[t[1]].kind])

(* -------------------------- _swap_credentials -------------------------- *)
\* a sync-back into the slot of the account being switched to
SyncSlotTarget(p) == loc[p].next_index

\* the slot sync-back writes: the slot of current_index
SyncSlot(p) == loc[p].current_index

\* 1. sync-back: copy the active file into the slot of current_index (the
\*    copy cannot succeed without the accounts directory), or remove a
\*    legacy symlink
SyncBack(p) ==
    /\ pc[p] = "sync"
    /\ IF CredsExists
       THEN IF creds.kind # "link"
            THEN /\ dir.exists
                 /\ slots' = [slots EXCEPT ![SyncSlot(p)] = creds]
                 /\ creds' = creds
            ELSE /\ creds' = NoFile
                 /\ slots' = slots
       ELSE UNCHANGED <<slots, creds>>
    /\ UNCHANGED <<dir, credsTmp, stateFile, stateTmp, log, lock, calls, envOps, succ>>
    /\ Step(p, "validate", loc[p],
            IF CredsExists /\ creds.kind # "link"
            THEN [hist[p] EXCEPT !.syncIn = creds, !.syncOut = slots'[loc[p].current_index]]
            ELSE hist[p])

\* what a sync-back copy that raises may leave in the slot: what was there
\* (the source or the slot could not be opened), a truncated file (the
\* slot was opened for writing and the write raised), or the whole copy
\* (the contents were written and copying the metadata raised)
SyncBackLeft(p) ==
    {slots[SyncSlot(p)]} \cup
    (IF dir.exists THEN {Torn(creds.acct), creds} ELSE {})

\* shutil.copy2 of the sync-back raises: logged, the swap goes on
SyncBackFail(p) ==
    /\ pc[p] = "sync"
    /\ CredsExists /\ creds.kind # "link"
    /\ \E f \in SyncBackLeft(p) : slots' = [slots EXCEPT ![SyncSlot(p)] = f]
    /\ UNCHANGED <<dir, creds, credsTmp, stateFile, stateTmp, log, lock, calls, envOps, succ>>
    /\ Step(p, "validate", loc[p],
            [hist[p] EXCEPT !.syncIn = creds, !.syncOut = slots[loc[p].current_index],
                            !.syncErr = TRUE])

\* 2. the target slot must exist
Validate(p) ==
    /\ pc[p] = "validate"
    /\ UNCHANGED <<durable, lock, calls, envOps, succ>>
    /\ IF slots[loc[p].next_index].kind = "none"
       THEN Step(p, "unlock", Raise(p, "AccountNotFoundError"), hist[p])
       ELSE Step(p, "copy", loc[p], hist[p])

\* the slot that activation copies
ActivateSource(p) == loc[p].next_index

\* a copy made straight onto the active file, without the temporary file
CopyOpenInPlace(p) ==
    /\ pc[p] = "copy"
    /\ UNCHANGED <<dir, slots, credsTmp, stateFile, stateTmp, log, lock, calls, envOps, succ>>
    /\ IF slots[ActivateSource(p)].kind # "none"
       THEN /\ creds' = Partial(slots[ActivateSource(p)].acct)
            /\ Step(p, "copying", [loc[p] EXCEPT !.source = slots[ActivateSource(p)]],
                    [hist[p] EXCEPT !.src = slots[loc[p].next_index]])
       ELSE /\ creds' = creds
            /\ Step(p, "unlock", Raise(p, "OSError"), hist[p])

\* shutil.copy2(target_slot, temp_active) opens both files: the temporary
\* file exists and holds nothing whole yet; if the slot vanished since the
\* check the copy raises and the handler re-raises OSError
CopyOpen(p) ==
    /\ pc[p] = "copy"
    /\ UNCHANGED <<dir, slots, creds, stateFile, stateTmp, log, lock, calls, envOps, succ>>
    /\ IF slots[ActivateSource(p)].kind # "none"
       THEN /\ credsTmp' = Partial(slots[ActivateSource(p)].acct)
            /\ Step(p, "copying", [loc[p] EXCEPT !.source = slots[ActivateSource(p)]],
                    [hist[p] EXCEPT !.src = slots[loc[p].next_index]])
       ELSE /\ credsTmp' = NoFile
            /\ Step(p, "unlock", Raise(p, "OSError"), hist[p])

\* the copy runs to its end: the temporary file holds what the slot held
\* when it was opened
CopyTarget(p) ==
    /\ pc[p] = "copying"
    /\ credsTmp' = loc[p].source
    /\ UNCHANGED <<dir, slots, creds, stateFile, stateTmp, log, lock, calls, envOps, succ>>
    /\ Step(p, "activate", loc[p], hist[p])

\* the copy raises (I/O error) before or while it writes: the temporary
\* file is removed, OSError
CopyFail(p) ==
    /\ pc[p] \in {"copy", "copying"}
    /\ credsTmp' = NoFile
    /\ UNCHANGED <<dir, slots, creds, stateFile, stateTmp, log, lock, calls, envOps, succ>>
    /\ Step(p, "unlock", Raise(p, "OSError"), hist[p])

\* os.replace(temp_active, creds_file)
Activate(p) ==
    /\ pc[p] = "activate"
    /\ creds' = credsTmp
    /\ credsTmp' = NoFile
    /\ UNCHANGED <<dir, slots, stateFile, stateTmp, log, lock, calls, envOps, succ>>
    /\ Step(p, "write", loc[p], [hist[p] EXCEPT !.put = credsTmp])

\* os.replace raises: the temporary file is removed, OSError
ActivateFail(p) ==
    /\ pc[p] = "activate"
    /\ credsTmp' = NoFile
    /\ UNCHANGED <<dir, slots, creds, stateFile, stateTmp, log, lock, calls, envOps, succ>>
    /\ Step(p, "unlock", Raise(p, "OSError"), hist[p])

(* ------------------- state update and _write_state --------------------- *)
\* the in-memory state after the bookkeeping of the switch
Updated(p) ==
    LET s == Switched(loc[p].state, loc[p].next_index)
    IN IF loc[p].op = "switch_next"
       THEN [s EXCEPT !.total_accounts = Len(loc[p].available_ids)]
       ELSE s

\* where a dump that runs to its end leaves the whole document: in
\* state.tmp; or, when state.tmp was renamed onto state.yaml while the dump
\* was writing it, in state.yaml; nowhere when state.tmp was unlinked
DumpInto(doc) ==
    IF stateTmp # <<>>
    THEN /\ stateTmp' = <<doc>>
         /\ stateFile' = stateFile
    ELSE IF stateFile # <<>> /\ ~Whole(stateFile[1])
         THEN /\ stateFile' = <<doc>>
              /\ stateTmp' = stateTmp
         ELSE UNCHANGED <<stateFile, stateTmp>>

\* state.current_index = ...; ...; _write_state: open(state.tmp, "w")
\* truncates the file, and the dump has written some of it
WriteOpen(p) ==
    /\ pc[p] = "write"
    /\ \E k \in Cuts : stateTmp' = <<Prefix(ToDict(Updated(p)), k)>>
    /\ UNCHANGED <<dir, slots, creds, credsTmp, stateFile, log, lock, calls, envOps, succ>>
    /\ Step(p, "dump", [loc[p] EXCEPT !.state = Updated(p)], hist[p])

\* yaml.dump runs to its end and the file is closed
WriteState(p) ==
    /\ pc[p] = "dump"
    /\ DumpInto(ToDict(loc[p].state))
    /\ UNCHANGED <<dir, slots, creds, credsTmp, log, lock, calls, envOps, succ>>
    /\ Step(p, "commit", loc[p], hist[p])

\* open or dump raises: state.tmp is removed, the error is re-raised
WriteStateFail(p) ==
    /\ pc[p] \in {"write", "dump"}
    /\ stateTmp' = <<>>
    /\ UNCHANGED <<dir, slots, creds, credsTmp, stateFile, log, lock, calls, envOps, succ>>
    /\ Step(p, "unlock", Raise(p, "OSError"), hist[p])

\* os.replace(temp_file, state_file)
CommitState(p) ==
    /\ pc[p] = "commit"
    /\ stateTmp # <<>>
    /\ stateFile' = stateTmp
    /\ stateTmp' = <<>>
    /\ UNCHANGED <<dir, slots, creds, credsTmp, log, lock, calls, envOps, succ>>
    /\ Step(p, "log", loc[p], hist[p])

\* os.replace raises: state.tmp is removed, the error is re-raised
CommitStateFail(p) ==
    /\ pc[p] = "commit"
    /\ stateTmp' = <<>>
    /\ UNCHANGED <<dir, slots, creds, credsTmp, stateFile, log, lock, calls, envOps, succ>>
    /\ Step(p, "unlock", Raise(p, "OSError"), hist[p])

(* ----------------------------- _log_switch ----------------------------- *)
\* an entry whose from_index is read after the state update
LogEntryAfter(p) ==
    [from |-> loc[p].state.current_index, to |-> loc[p].next_index,
     reason |-> loc[p].reason]

LogEntry(p) ==
    [from |-> loc[p].current_index, to |-> loc[p].next_index, reason |-> loc[p].reason]

\* the value the call returns: True for switch_to, not wrapped for switch_next
Returned(p) ==
    [loc[p] EXCEPT !.result = "ok",
                   !.flag = IF loc[p].op = "switch_next" THEN ~loc[p].wrapped ELSE TRUE]

\* append the entry to rotation.log; return
LogSwitch(p) ==
    /\ pc[p] = "log"
    /\ log' = Append(log, LogEntry(p))
    /\ succ' = succ + 1
    /\ UNCHANGED <<dir, slots, creds, credsTmp, stateFile, stateTmp, lock, calls, envOps>>
    /\ Step(p, "unlock", Returned(p), hist[p])

\* the append raises IOError: swallowed; return
LogSwitchFail(p) ==
    /\ pc[p] = "log"
    /\ succ' = succ + 1
    /\ UNCHANGED <<durable, lock, calls, envOps>>
    /\ Step(p, "unlock", Returned(p), hist[p])

(* --------------------------- the environment --------------------------- *)
\* positions inside the locked section, after the state was read
Swapping == {"sync", "validate", "copy", "copying", "activate"}

\* an out-of-band slot change is noted by the calls it races with
Raced == [p \in Procs |-> IF pc[p] \in Swapping
                          THEN [hist[p] EXCEPT !.raced = TRUE] ELSE hist[p]]

\* the wrapped tool rewrites the active credential file in place (through a
\* symlink the write lands in the slot it points at)
ToolWrite ==
    /\ \/ /\ creds.kind = "file"
          /\ creds.ver >= 0
          /\ creds.ver < MaxVer
          /\ creds' = File(creds.acct, creds.ver + 1)
          /\ slots' = slots
       \/ /\ creds.kind = "link"
          /\ slots[creds.acct].kind = "file"
          /\ slots[creds.acct].ver >= 0
          /\ slots[creds.acct].ver < MaxVer
          /\ slots' = [slots EXCEPT ![creds.acct] = File(@.acct, @.ver + 1)]
          /\ creds' = creds
    /\ UNCHANGED <<dir, credsTmp, stateFile, stateTmp, log, lock, pc, loc, hist, calls,
                   envOps, succ>>

\* onboarding stores the credentials of account i in its slot, making the
\* accounts directory when there is none
AddSlot(i) ==
    /\ envOps < MaxEnv
    /\ slots[i].kind = "none"
    /\ slots' = [slots EXCEPT ![i] = File(i, 0)]
    /\ dir' = [dir EXCEPT !.exists = TRUE]
    /\ envOps' = envOps + 1
    /\ hist' = Raced
    /\ UNCHANGED <<creds, credsTmp, stateFile, stateTmp, log, lock, pc, loc, calls, succ>>

\* account removal deletes the slot of account i
RemoveSlot(i) ==
    /\ envOps < MaxEnv
    /\ slots[i].kind # "none"
    /\ slots' = [slots EXCEPT ![i] = NoFile]
    /\ envOps' = envOps + 1
    /\ hist' = Raced
    /\ UNCHANGED <<dir, creds, credsTmp, stateFile, stateTmp, log, lock, pc, loc, calls, succ>>

(* --------------------------- specification ----------------------------- *)
ProcNext(p) ==
    \/ \E x \in Idx : CallSwitchTo(p, x)
    \/ CallSwitchNext(p)
    \/ Acquire(p)
    \/ AcquireFail(p)
    \/ SwitchToRead(p)
    \/ SwitchNextRead(p)
    \/ SyncBack(p)
    \/ SyncBackFail(p)
    \/ Validate(p)
    \/ CopyOpen(p)
    \/ CopyTarget(p)
    \/ CopyFail(p)
    \/ Activate(p)
    \/ ActivateFail(p)
    \/ WriteOpen(p)
    \/ WriteState(p)
    \/ WriteStateFail(p)
    \/ CommitState(p)
    \/ CommitStateFail(p)
    \/ LogSwitch(p)
    \/ LogSwitchFail(p)
    \/ Unlock(p)

EnvNext ==
    \/ ToolWrite
    \/ \E i \in Idx : AddSlot(i)
    \/ \E i \in Idx : RemoveSlot(i)

Next == (\E p \in Procs : ProcNext(p)) \/ EnvNext

Spec == Init /\ [][Next]_vars

(* ------------------------- create_initial_state ------------------------ *)
\* the account totals a caller passes: the setup command's count or the
\* default
Totals == {MaxIdx, DEFAULT_TOTAL_ACCOUNTS}

\* a caller (the setup command) invokes create_initial_state(total_accounts
\* = n): state = RotationState(total_accounts = n)
CallCreateInitialState(p, n) ==
    /\ pc[p] = "idle"
    /\ calls < MaxCalls
    /\ calls' = calls + 1
    /\ UNCHANGED <<durable, lock, envOps, succ>>
    /\ Step(p, "init_write",
            [IdleLoc EXCEPT !.op = "create_initial_state",
                            !.state = NewRotationState(n)],
            IdleHist)

\* manager._write_state(state): open(state.tmp, "w") truncates the file,
\* and the dump has written some of it. No lock is taken.
CreateOpen(p) ==
    /\ pc[p] = "init_write"
    /\ \E k \in Cuts : stateTmp' = <<Prefix(ToDict(loc[p].state), k)>>
    /\ UNCHANGED <<dir, slots, creds, credsTmp, stateFile, log, lock, calls, envOps, succ>>
    /\ Step(p, "init_dump", loc[p], hist[p])

\* yaml.dump runs to its end and the file is closed
CreateWrite(p) ==
    /\ pc[p] = "init_dump"
    /\ DumpInto(ToDict(loc[p].state))
    /\ UNCHANGED <<dir, slots, creds, credsTmp, log, lock, calls, envOps, succ>>
    /\ Step(p, "init_commit", loc[p], hist[p])

\* open or dump raises: state.tmp is removed, the error is re-raised
CreateWriteFail(p) ==
    /\ pc[p] \in {"init_write", "init_dump"}
    /\ stateTmp' = <<>>
    /\ UNCHANGED <<dir, slots, creds, credsTmp, stateFile, log, lock, calls, envOps, succ>>
    /\ Step(p, "return", [loc[p] EXCEPT !.result = "OSError"], hist[p])

\* os.replace(temp_file, state_file) with whatever state.tmp holds now
CreateCommit(p) ==
    /\ pc[p] = "init_commit"
    /\ stateTmp # <<>>
    /\ stateFile' = stateTmp
    /\ stateTmp' = <<>>
    /\ UNCHANGED <<dir, slots, creds, credsTmp, log, lock, calls, envOps, succ>>
    /\ Step(p, "return", [loc[p] EXCEPT !.result = "ok"], hist[p])

\* os.replace raises (also when state.tmp is gone): state.tmp is removed,
\* the error is re-raised
CreateCommitFail(p) ==
    /\ pc[p] = "init_commit"
    /\ stateTmp' = <<>>
    /\ UNCHANGED <<dir, slots, creds, credsTmp, stateFile, log, lock, calls, envOps, succ>>
    /\ Step(p, "return", [loc[p] EXCEPT !.result = "OSError"], hist[p])

\* create_initial_state returns or raises
CreateReturn(p) ==
    /\ pc[p] = "return"
    /\ UNCHANGED <<durable, lock, calls, envOps, succ>>
    /\ Step(p, "idle", IdleLoc, IdleHist)

CreateNext(p) ==
    \/ \E n \in Totals : CallCreateInitialState(p, n)
    \/ CreateOpen(p)
    \/ CreateWrite(p)
    \/ CreateWriteFail(p)
    \/ CreateCommit(p)
    \/ CreateCommitFail(p)
    \/ CreateReturn(p)

\* the switch callers and the environment, plus callers of
\* create_initial_state
InitNext == Next \/ (\E p \in Procs : CreateNext(p))

SpecInit == Init /\ [][InitNext]_vars

(* ------------------- the store after a first switch -------------------- *)
\* the store one successful, logged switch_to(a) leaves behind when it
\* started from no state file and every account but the last onboarded: account a
\* active, the state counting one switch, one audit entry from the default
\* current_index
AuditInit ==
    /\ dir = [exists |-> TRUE, others |-> {}]
    /\ slots = [i \in Idx |-> IF i = MaxIdx THEN NoFile ELSE File(i, 0)]
    /\ \E a \in Existing(slots) :
          /\ creds = File(a, 0)
          /\ stateFile = <<ToDict(Switched(NewRotationState(DEFAULT_TOTAL_ACCOUNTS), a))>>
          /\ log = <<[from |-> NewRotationState(DEFAULT_TOTAL_ACCOUNTS).current_index,
                      to |-> a, reason |-> "manual"]>>
    /\ credsTmp = NoFile
    /\ stateTmp = <<>>
    /\ lock = "free"
    /\ pc = [p \in Procs |-> "idle"]
    /\ loc = [p \in Procs |-> IdleLoc]
    /\ hist = [p \in Procs |-> IdleHist]
    /\ calls = 0
    /\ envOps = 0
    /\ succ = 1

SpecAudit == AuditInit /\ [][Next]_vars

(* ------------------ switch_next, call after call ----------------------- *)
\* calls of switch_next in a row
MaxRound == 4

\* names in the accounts directory that discovery reads as an index without
\* their being that index's slot file
StrayNames == {n \in OtherNames : Globbed(n) /\ ParseInt(n.last) >= 0}

\* a fresh installation: no state file, no active file, any slots, and
\* any of the stray names beside them
RoundInit ==
    /\ dir \in [exists : {TRUE}, others : SUBSET StrayNames]
    /\ slots \in [Idx -> {NoFile} \cup {File(i, 0) : i \in Idx}]
    /\ \A i \in Idx : slots[i] \in {NoFile, File(i, 0)}
    /\ creds = NoFile
    /\ credsTmp = NoFile
    /\ stateFile = <<>>
    /\ stateTmp = <<>>
    /\ log = <<>>
    /\ lock = "free"
    /\ pc = [p \in Procs |-> "idle"]
    /\ loc = [p \in Procs |-> IdleLoc]
    /\ hist = [p \in Procs |-> IdleHist]
    /\ calls = 0
    /\ envOps = 0
    /\ succ = 0

\* a caller invokes switch_next(), one of up to MaxRound calls
CallRound(p) ==
    /\ pc[p] = "idle"
    /\ calls < MaxRound
    /\ calls' = calls + 1
    /\ UNCHANGED <<durable, lock, envOps, succ>>
    /\ Step(p, "lock", [IdleLoc EXCEPT !.op = "switch_next", !.reason = "auto_quota"],
            [IdleHist EXCEPT !.waited = (lock # "free")])

\* switch_next with no I/O fault and nothing else touching the files
RoundNext(p) ==
    \/ CallRound(p)
    \/ Acquire(p)
    \/ SwitchNextRead(p)
    \/ SyncBack(p)
    \/ Validate(p)
    \/ CopyOpen(p)
    \/ CopyTarget(p)
    \/ Activate(p)
    \/ WriteOpen(p)
    \/ WriteState(p)
    \/ CommitState(p)
    \/ LogSwitch(p)
    \/ Unlock(p)

SpecRound == RoundInit /\ [][\E p \in Procs : RoundNext(p)]_vars

(* ----------------------------- progress -------------------------------- *)
\* a step of p inside its call other than the wait for the lock: the code
\* between the call and the return has no blocking point
Advance(p) == pc[p] \notin {"idle", "lock"} /\ ProcNext(p)

\* a fresh installation in which accounts 2 and 3 are onboarded, account 1
\* onboarded or not
LiveInit ==
    /\ Init
    /\ creds = NoFile
    /\ {2, 3} \subseteq Existing(slots)

\* the switch callers alone
LiveNext == \E p \in Procs : ProcNext(p)

\* a running call keeps taking steps, and a caller that finds the lock free
\* again and again is granted it (fair hand-over of the flock)
SpecLive ==
    /\ LiveInit
    /\ [][LiveNext]_vars
    /\ \A p \in Procs : WF_vars(Advance(p)) /\ SF_vars(Acquire(p))

(* ------------------- get_state, list_accounts, get_stats ---------------- *)
\* the indices of a sequence of discovered ids
Range(seq) == {seq[k] : k \in 1..Len(seq)}

\* a listing that marks every discovered account active
ListAccountsAllActive(state, ids) ==
    [i \in Range(ids) |->
        LET stats == IF i \in DOMAIN state.accounts THEN state.accounts[i]
                     ELSE NewAccountStats
        IN [index |-> i, active |-> TRUE, exists |-> TRUE,
            switches_count |-> stats.switches_count, last_used |-> stats.last_used]]

\* list_accounts' result for the state and the discovered ids: one entry
\* per key account{i}
ListAccounts(state, ids) ==
    [i \in Range(ids) |->
        LET stats == IF i \in DOMAIN state.accounts THEN state.accounts[i]
                     ELSE NewAccountStats
        IN [index |-> i, active |-> (i = state.current_index), exists |-> TRUE,
            switches_count |-> stats.switches_count, last_used |-> stats.last_used]]

\* max(accounts.items(), key = switches_count, default = ("none", 0)): the
\* first entry, in the order of the ids, with the largest count; 0 is "none"
MostUsed(listed) ==
    IF DOMAIN listed = {} THEN [account |-> 0, count |-> 0]
    ELSE LET top == CHOOSE i \in DOMAIN listed :
                       /\ \A j \in DOMAIN listed :
                             listed[j].switches_count <= listed[i].switches_count
                       /\ \A j \in DOMAIN listed :
                             listed[j].switches_count = listed[i].switches_count => i <= j
         IN [account |-> top, count |-> listed[top].switches_count]

\* get_stats' result for the state it read and the listing it got
Stats(state, listed) ==
    [accounts |-> [i \in DOMAIN listed |-> listed[i].switches_count],
     total_switches |-> state.switches_total,
     last_switch |-> state.last_switch,
     current_account |-> state.current_index,
     most_used_account |-> MostUsed(listed).account,
     most_used_count |-> MostUsed(listed).count]

\* a caller invokes get_state(), list_accounts() or get_stats()
CallRead(p, op) ==
    /\ pc[p] = "idle"
    /\ calls < MaxCalls
    /\ calls' = calls + 1
    /\ UNCHANGED <<durable, lock, envOps, succ>>
    /\ Step(p, IF op = "get_state" THEN "get" ELSE IF op = "get_stats" THEN "stats"
               ELSE "list",
            [IdleLoc EXCEPT !.op = op], IdleHist)

\* get_state(), the whole call: the state is returned, or the call raises
GetStateRead(p) ==
    /\ pc[p] = "get"
    /\ UNCHANGED <<durable, lock, calls, envOps, succ>>
    /\ IF GetStateRaises(stateFile)
       THEN Step(p, "answer", [loc[p] EXCEPT !.result = "AttributeError"], hist[p])
       ELSE Step(p, "answer",
                 [loc[p] EXCEPT !.state = GetState(stateFile), !.result = "ok"], hist[p])

\* get_stats: state = self.get_state(); list_accounts() is next
StatsRead(p) ==
    /\ pc[p] = "stats"
    /\ UNCHANGED <<durable, lock, calls, envOps, succ>>
    /\ IF GetStateRaises(stateFile)
       THEN Step(p, "answer", [loc[p] EXCEPT !.result = "AttributeError"], hist[p])
       ELSE Step(p, "list", [loc[p] EXCEPT !.first = GetState(stateFile)], hist[p])

\* list_accounts: state = self.get_state()
ListRead(p) ==
    /\ pc[p] = "list"
    /\ UNCHANGED <<durable, lock, calls, envOps, succ>>
    /\ IF GetStateRaises(stateFile)
       THEN Step(p, "answer", [loc[p] EXCEPT !.result = "AttributeError"], hist[p])
       ELSE Step(p, "discover", [loc[p] EXCEPT !.state = GetState(stateFile)], hist[p])

\* list_accounts: available_ids = self._discover_account_ids() and the
\* loop that builds the result; get_stats then builds its own from it
ListDiscover(p) ==
    /\ pc[p] = "discover"
    /\ UNCHANGED <<durable, lock, calls, envOps, succ>>
    /\ LET ids == DiscoverAccountIds(dir, slots)
           listed == ListAccounts(loc[p].state, ids)
       IN Step(p, "answer",
               [loc[p] EXCEPT !.available_ids = ids, !.listed = listed,
                              !.out = IF loc[p].op = "get_stats"
                                      THEN Stats(loc[p].first, listed) ELSE <<>>,
                              !.result = "ok"],
               hist[p])

\* the read returns or raises
ReadReturn(p) ==
    /\ pc[p] = "answer"
    /\ UNCHANGED <<durable, lock, calls, envOps, succ>>
    /\ Step(p, "idle", IdleLoc, IdleHist)

ReadOps == {"get_state", "list_accounts", "get_stats"}

ReadNext(p) ==
    \/ \E op \in ReadOps : CallRead(p, op)
    \/ GetStateRead(p)
    \/ StatsRead(p)
    \/ ListRead(p)
    \/ ListDiscover(p)
    \/ ReadReturn(p)

\* readers beside the switch callers and the environment
RdNext == Next \/ (\E p \in Procs : ReadNext(p))

SpecRead == Init /\ [][RdNext]_vars

(* ---------------------- reads over any directory ----------------------- *)
\* a state file as a switch to account 2 leaves it
SwitchedDoc == ToDict(Switched(NewRotationState(DEFAULT_TOTAL_ACCOUNTS), 2))

\* state files a reader may meet: none, empty, torn, whole, unparsable, and
\* parsable documents that are not a mapping of the expected shape
ViewDocs ==
    {<<>>, <<Prefix(SwitchedDoc, 0)>>, <<Prefix(SwitchedDoc, 2)>>, <<SwitchedDoc>>,
     <<[yaml |-> "unparsable"]>>, <<[yaml |-> "sequence"]>>, <<[yaml |-> "scalar"]>>,
     <<[yaml |-> "accounts_null"]>>}

InitView ==
    /\ dir \in [exists : BOOLEAN, others : SUBSET OtherNames]
    /\ slots \in [Idx -> {NoFile} \cup {File(i, 0) : i \in Idx}]
    /\ \A i \in Idx : slots[i] \in {NoFile, File(i, 0)}
    /\ ~dir.exists => (dir.others = {} /\ \A i \in Idx : slots[i] = NoFile)
    /\ creds = NoFile
    /\ credsTmp = NoFile
    /\ stateFile \in ViewDocs
    /\ stateTmp = <<>>
    /\ log = <<>>
    /\ lock = "free"
    /\ pc = [p \in Procs |-> "idle"]
    /\ loc = [p \in Procs |-> IdleLoc]
    /\ hist = [p \in Procs |-> IdleHist]
    /\ calls = 0
    /\ envOps = 0
    /\ succ = 0

\* a file with another name is put into the accounts directory
AddOther(n) ==
    /\ envOps < MaxEnv
    /\ dir.exists
    /\ n \notin dir.others
    /\ dir' = [dir EXCEPT !.others = @ \cup {n}]
    /\ envOps' = envOps + 1
    /\ UNCHANGED <<slots, creds, credsTmp, stateFile, stateTmp, log, lock, pc, loc, hist,
                   calls, succ>>

\* a file with another name is removed from the accounts directory
RemoveOther(n) ==
    /\ envOps < MaxEnv
    /\ n \in dir.others
    /\ dir' = [dir EXCEPT !.others = @ \ {n}]
    /\ envOps' = envOps + 1
    /\ UNCHANGED <<slots, creds, credsTmp, stateFile, stateTmp, log, lock, pc, loc, hist,
                   calls, succ>>

\* one reader, and files coming and going in the accounts directory
ViewNext ==
    \/ ReadNext("p1")
    \/ \E n \in OtherNames : AddOther(n)
    \/ \E n \in OtherNames : RemoveOther(n)
    \/ \E i \in Idx : AddSlot(i)
    \/ \E i \in Idx : RemoveSlot(i)

SpecView == InitView /\ [][ViewNext]_vars

(* ======================= properties of the model ======================== *)
\* the locked section of _with_lock: from flock(LOCK_EX) to flock(LOCK_UN)
InLocked(p) == pc[p] \in {"read", "sync", "validate", "copy", "copying", "activate",
                          "write", "dump", "commit", "log"}
               \/ (pc[p] = "unlock" /\ lock = p)

\* the call of p has finished its operation and is about to return or raise
Finished(p) == pc[p] = "unlock"

\* the persisted Rotation State, as a reader sees it
Persisted == GetState(stateFile)

RECURSIVE SumCounts(_, _)
SumCounts(acc, S) ==
    IF S = {} THEN 0
    ELSE LET k == CHOOSE x \in S : TRUE
         IN acc[k].switches_count + SumCounts(acc, S \ {k})

Min(S) == CHOOSE x \in S : \A y \in S : x <= y
Max(S) == CHOOSE x \in S : \A y \in S : x >= y

\* C1: concurrent switch_next / switch_to calls are serialized by the lock:
\* no two processes are inside the locked section together; from its state
\* read until its own write a call's in-memory state is the persisted state
\* (so the second call reads what the first wrote, and a switch_next target
\* is computed from it); and no update is lost: the persisted switches_total
\* counts every switch that has committed its state.
C1_Serialized ==
    /\ \A p, q \in Procs : p # q => ~(InLocked(p) /\ InLocked(q))
    /\ \A p \in Procs :
          pc[p] \in {"sync", "validate", "copy", "copying", "activate", "write"} =>
             /\ ToDict(loc[p].state) = ToDict(Persisted)
             /\ loc[p].current_index = Persisted.current_index
             /\ loc[p].op = "switch_next" =>
                   loc[p].next_index =
                       NextTarget(loc[p].available_ids, Persisted.current_index)[1]
    /\ Persisted.switches_total = succ + Cardinality({p \in Procs : pc[p] = "log"})

\* a call made while the other process held the lock has succeeded after
\* the other one did: it started from the state the first wrote (its own
\* update is the second) and switched from the account the first
\* activated; switches_total has grown by 2
C1_Witness ==
    \E p \in Procs :
       /\ Finished(p) /\ loc[p].result = "ok" /\ hist[p].waited
       /\ loc[p].state.switches_total = 2
       /\ Len(log) = 2
       /\ loc[p].current_index = log[1].to
       /\ log[2].from = log[1].to
       /\ succ = 2
       /\ Persisted.switches_total = 2

\* C2 (as claimed): whoever is writing the state file or its temporary file
\* holds the lock: a call that has changed either of them and has not yet
\* returned is the lock's holder.
C2_StateWrittenUnderLock ==
    \A p \in Procs :
       (pc[p] # "idle" /\ hist[p].touched \cap {"state", "stateTmp"} # {})
       => lock = p

\* C3 (as claimed): a switch_to(x) whose slot x does not exist when the call
\* enters its locked section, and with no out-of-band slot change during the
\* call, fails with AccountNotFound and has changed neither the state file
\* nor its temporary file.
C3_MissingTargetFails ==
    \A p \in Procs :
       (Finished(p) /\ loc[p].op = "switch_to" /\ hist[p].tgtBefore = "none"
        /\ ~hist[p].raced)
       => /\ loc[p].result = "AccountNotFoundError"
          /\ hist[p].touched \cap {"state", "stateTmp"} = {}

\* C4 (as claimed): a call that fails with AccountNotFound has changed no
\* durable store: no slot, not the active credential file, not the state
\* file, not the audit log.
C4_NotFoundChangesNothing ==
    \A p \in Procs :
       (Finished(p) /\ loc[p].result = "AccountNotFoundError")
       => hist[p].touched = {}

\* C5 (as claimed): a successful switch installed, as a regular file,
\* exactly what the target slot held when it was copied; the active file
\* still holds those credentials (up to in-place rewrites by the tool) and
\* the persisted current_index is the target.
C5_ActivatedTarget ==
    \A p \in Procs :
       (Finished(p) /\ loc[p].result = "ok")
       => /\ hist[p].src.kind = "file"
          /\ hist[p].put = hist[p].src
          /\ creds.kind = "file"
          /\ creds.acct = hist[p].src.acct
          /\ creds.ver >= hist[p].src.ver
          /\ stateFile # <<>>
          /\ Persisted.current_index = loc[p].next_index

C7_CountersAgree ==
    /\ Persisted.switches_total = succ + Cardinality({p \in Procs : pc[p] = "log"})
    /\ SumCounts(Persisted.accounts, DOMAIN Persisted.accounts) = Persisted.switches_total
    /\ \A p \in Procs :
          (Finished(p) /\ loc[p].result # "ok" /\ loc[p].result # "none")
          => "state" \notin hist[p].touched

\* two switches to different accounts succeeded and both calls succeeded
C7_Witness ==
    /\ succ = 2
    /\ Persisted.switches_total = 2
    /\ Cardinality(DOMAIN Persisted.accounts) = 2
    /\ calls = MaxCalls

Discovered(p) ==
    pc[p] = "answer" /\ loc[p].op \in {"list_accounts", "get_stats"}
    /\ loc[p].result = "ok"

\* C11 (as claimed): the ids discovery returns are in strictly ascending
\* order, no index twice, whatever files the accounts directory holds.
C11_AscendingNoDuplicate ==
    \A p \in Procs :
       Discovered(p) =>
          \A k \in 1..(Len(loc[p].available_ids) - 1) :
             loc[p].available_ids[k] < loc[p].available_ids[k + 1]

\* C19 (as claimed): get_state, list_accounts and get_stats return a result
\* for every state file and every accounts directory; they never raise.
C19_ReadsNeverRaise ==
    \A p \in Procs : pc[p] = "answer" => loc[p].result = "ok"

\* C12 (as claimed): whenever a read may run, the state file is absent or
\* holds one completely serialized state (the previous or the new one),
\* never a partially written document.
C12_StateFileNeverTorn ==
    stateFile = <<>> \/ Whole(stateFile[1])

\* the activation of p (copy to the temporary file, rename) fails in the
\* step being taken
ActivationFails(p) ==
    pc[p] \in {"copy", "copying", "activate"} /\ pc'[p] = "unlock"

\* C13: the active credential file never holds a partial copy: a rotation
\* step changes it only by removing a legacy symlink or by renaming onto it
\* the complete copy of the target slot; a failed activation removes the
\* temporary file and leaves the active file as it was.
C13_ActiveNeverPartial ==
    /\ [](creds.kind # "partial")
    /\ [][\A p \in Procs :
            /\ ActivationFails(p) => (creds' = creds /\ credsTmp' = NoFile)
            /\ (pc[p] = "activate" /\ pc'[p] = "write")
                  => (creds' = loc[p].source /\ creds'.kind = "file")
            /\ (pc[p] \in {"validate", "copy", "copying"} /\ pc'[p] # pc[p])
                  => creds' = creds]_vars

\* an activation failed after the copy had begun, and the active file still
\* holds the complete credentials an earlier switch installed
C13_Witness ==
    \E p \in Procs :
       /\ Finished(p) /\ loc[p].result = "LockError"
       /\ hist[p].src # NoFile
       /\ creds.kind = "file" /\ creds.acct # loc[p].next_index
       /\ credsTmp = NoFile

\* C14 (as claimed): a switch that failed committed no state mutation and
\* appended no audit entry: it changed neither the state file nor the log,
\* and the state it had prepared in state.tmp is not the persisted one.
C14_FailedSwitchCommitsNothing ==
    \A p \in Procs :
       (Finished(p) /\ loc[p].result # "ok")
       => /\ hist[p].touched \cap {"state", "log"} = {}
          /\ "stateTmp" \in hist[p].touched
                => stateFile # <<ToDict(loc[p].state)>>

\* the entry from_index -> to_index of a log line
Follows(e, f) == f.from = e.to

C16_LockReleased ==
    /\ lock \in Procs \cup {"free"}
    /\ \A p \in Procs : pc[p] \in {"idle", "lock"} => lock # p
    /\ (\A p \in Procs : pc[p] \in {"idle", "lock"})
          => \A q \in Procs : LockGranted(q)

\* a call that held the lock has failed and left, and the process that
\* was waiting for the lock now holds it
C16_Witness ==
    \E p, q \in Procs :
       /\ p # q /\ pc[p] = "idle" /\ calls = 2 /\ succ = 0
       /\ lock = q /\ hist[q].waited /\ InLocked(q)

\* C17 (as claimed): a call fails with LockError only when the lock could
\* not be acquired: the call never held the lock, the protected operation
\* did not run and no durable store was changed.
C17_LockErrorOnlyFromLock ==
    \A p \in Procs :
       (Finished(p) /\ loc[p].result = "LockError")
       => /\ lock # p
          /\ hist[p].tgtBefore = "unread"
          /\ hist[p].touched = {}

\* p is inside get_state, list_accounts or get_stats
Reading(p) == loc[p].op \in ReadOps

\* C18: get_state, list_accounts and get_stats never hold the lock and
\* none of their steps changes a slot, the active credential file, the
\* state file or its temporary file, the audit log or the directory; the
\* state they use is the persisted one at the moment of the read; and
\* list_accounts' result has one entry per discovered index, active exactly
\* for the current_index that was read, with that account's counters from
\* the state read, or zero and no last use when it has no entry.
C18_PureReads ==
    /\ [](\A p \in Procs : Reading(p) => (lock # p /\ hist[p].touched = {}))
    /\ [][\A p \in Procs :
            (Reading(p) /\ pc'[p] # pc[p])
            => /\ UNCHANGED <<durable, lock>>
               /\ (pc[p] \in {"get", "list"} /\ ~GetStateRaises(stateFile))
                     => loc'[p].state = Persisted]_vars
    /\ [](\A p \in Procs :
            Discovered(p) =>
               /\ DOMAIN loc[p].listed = Range(loc[p].available_ids)
               /\ \A i \in DOMAIN loc[p].listed :
                     LET e == loc[p].listed[i]
                         st == loc[p].state
                     IN /\ e.index = i
                        /\ e.active <=> (i = st.current_index)
                        /\ IF i \in DOMAIN st.accounts
                           THEN /\ e.switches_count = st.accounts[i].switches_count
                                /\ e.last_used = st.accounts[i].last_used
                           ELSE /\ e.switches_count = 0
                                /\ e.last_used = "none")

\* list_accounts has its result while the other process holds the lock,
\* its switch committed: the account switched to is listed active with one
\* switch, another discovered account inactive with none
C18_Witness ==
    \E p, q \in Procs :
       /\ p # q /\ Discovered(p) /\ loc[p].op = "list_accounts"
       /\ lock = q /\ pc[q] = "log"
       /\ \E i, j \in DOMAIN loc[p].listed :
             /\ loc[p].listed[i].active /\ loc[p].listed[i].switches_count = 1
             /\ ~loc[p].listed[j].active /\ loc[p].listed[j].switches_count = 0

\* C20 (as claimed): no step of switch_to or switch_next changes the set
\* of indices that have a slot file: rotation neither deletes a slot nor
\* creates one.
C20_SlotSetUnchanged ==
    [][\A p \in Procs :
          pc'[p] # pc[p] => Existing(slots') = Existing(slots)]_vars

\* no switch_to or switch_next is under way
Quiet == \A p \in Procs : pc[p] \in {"idle", "lock"}

\* C21 (as claimed): whenever no operation is under way and the active
\* credential file is a regular file, it holds the credentials of the
\* account the persisted current_index names.
C21_ActiveIsCurrent ==
    (Quiet /\ creds.kind = "file") => creds.acct = Persisted.current_index

\* C22 (as claimed): no step of any operation makes the persisted
\* switches_total smaller.
C22_TotalNeverDecreases ==
    [][Persisted'.switches_total >= Persisted.switches_total]_vars

\* C23 (as claimed, its last part): a sync-back copy that fails leaves
\* the outgoing slot with the complete contents it had before.
C23_FailedSyncBackKeepsSlot ==
    [][\A p \in Procs :
          (pc[p] = "sync" /\ pc'[p] = "validate" /\ hist'[p].syncErr)
          => slots' = slots]_vars

\* C24 (as claimed): every index a discovery returns has its slot file,
\* oauth_creds_{index}.json, in the accounts directory at that moment.
C24_DiscoveredSlotsExist ==
    [][\A p \in Procs :
          (pc[p] = "discover" /\ pc'[p] = "answer")
          => \A i \in Range(loc'[p].available_ids) : i \in Existing(slots)]_vars

\* C25 (as claimed): no account's slot ever holds credentials issued for
\* another account.
C25_SlotsHoldOwnAccount ==
    \A i \in Idx : slots[i].kind = "file" => slots[i].acct = i

\* C26 (as claimed): with k slot files that do not change, every k
\* successful switch_next calls in a row (every k consecutive audit
\* entries) activate each slot's index once, and a call reports a wrap
\* exactly when it activates the smallest index, so once in every k calls.
C26_RoundRobin ==
    LET S == Existing(slots)
        k == Cardinality(S)
    IN /\ \A j \in 1..Len(log) :
             (j + k - 1 <= Len(log)) => {log[i].to : i \in j..(j + k - 1)} = S
       /\ \A p \in Procs :
             (Finished(p) /\ loc[p].result = "ok")
             => (loc[p].wrapped <=> loc[p].next_index = Min(S))

\* C27: every call of switch_to or switch_next that has begun eventually
\* returns or raises, whether it had to wait for the lock or not and
\* whether its operation succeeds or fails.
C27_EveryCallEnds ==
    \A p \in Procs : (pc[p] # "idle") ~> (pc[p] = "idle")

\* a call that was made while the other process held the lock has run
\* its operation and is about to return, after the holder failed and left
C27_Witness ==
    \E p, q \in Procs :
       /\ p # q /\ hist[p].waited /\ Finished(p) /\ lock = p
       /\ pc[q] = "idle" /\ calls = 2 /\ succ = IF loc[p].result = "ok" THEN 1 ELSE 0

====
